---------------------------- MODULE Spec2Model ----------------------------
(***************************************************************************)
(* A model of network_config_generator_v1.2.py: the spreadsheet rows it    *)
(* reads, validate_data, configure_site with the generate_* renderers, and *)
(* main's loop that writes the rendered text.                              *)
(*                                                                         *)
(* Strings are TLA+ strings and are computed character by character        *)
(* (lower, strip, split, startswith, len, f-string concatenation).  A text *)
(* is the sequence of its lines: '\n'.join(xs) is the concatenation of the *)
(* line sequences xs (no cell of the modelled sheets holds a newline).     *)
(* A spreadsheet cell is a tagged value: a string, an integer, a float that *)
(* holds a whole number, NaN (an empty cell), or None (what Series.get      *)
(* returns for an absent column).                                          *)
(***************************************************************************)
EXTENDS Integers, Sequences, FiniteSets, TLC

VARIABLES
    DataPlan,       \* what read_data returned: None or the DataFrame
    pc,             \* main's position
    output_choice,  \* main's output_choice
    idx,            \* number of rows DataPlan.iterrows() has yielded
    output_config,  \* main's output_config (a list of texts)
    files,          \* the file system under FinalConfigFiles/: name -> text
    output_dir,     \* whether os.makedirs has created FinalConfigFiles
    now,            \* the clock that datetime.now() reads, in seconds
    log,            \* the messages given to logger.error, in order
    exc             \* the exception that ended main, "" when none

vars == <<DataPlan, pc, output_choice, idx, output_config, files, output_dir, now, log, exc>>

(* ------------------------------ bounds -------------------------------- *)
MaxRows == 2
MaxClock == 1
MaxPortIndex == 3

(* --------------------------- Python strings --------------------------- *)
Char(s, i) == SubSeq(s, i, i)

UpperCase == "ABCDEFGHIJKLMNOPQRSTUVWXYZ"
LowerCase == "abcdefghijklmnopqrstuvwxyz"

\* the lower-case letter of each upper-case letter
LowerOf ==
    [c \in {Char(UpperCase, k) : k \in 1..Len(UpperCase)} |->
        Char(LowerCase, CHOOSE k \in 1..Len(UpperCase) : Char(UpperCase, k) = c)]

\* str.lower() of one character
LowerChar(c) == IF c \in DOMAIN LowerOf THEN LowerOf[c] ELSE c

RECURSIVE Lower(_)
\* str.lower()
Lower(s) == IF s = "" THEN "" ELSE LowerChar(Char(s, 1)) \o Lower(Tail(s))

IsSpace(c) == c \in {" ", "\t", "\n", "\r"}

RECURSIVE LStrip(_)
LStrip(s) == IF s # "" /\ IsSpace(Char(s, 1)) THEN LStrip(Tail(s)) ELSE s

RECURSIVE RStrip(_)
RStrip(s) ==
    IF s # "" /\ IsSpace(Char(s, Len(s))) THEN RStrip(SubSeq(s, 1, Len(s) - 1)) ELSE s

\* str.strip()
Strip(s) == RStrip(LStrip(s))

\* str.startswith(p)
StartsWith(s, p) == Len(s) >= Len(p) /\ SubSeq(s, 1, Len(p)) = p

RECURSIVE SplitFrom(_, _, _)
\* the parts of s after the prefix `cur` of the current part has been read
SplitFrom(s, sep, cur) ==
    IF s = "" THEN <<cur>>
    ELSE IF Char(s, 1) = sep THEN <<cur>> \o SplitFrom(Tail(s), sep, "")
    ELSE SplitFrom(Tail(s), sep, cur \o Char(s, 1))

\* str.split(sep) for a one-character separator
Split(s, sep) == SplitFrom(s, sep, "")

RECURSIVE Repeat(_, _)
\* n * s
Repeat(s, n) == IF n <= 0 THEN "" ELSE s \o Repeat(s, n - 1)

RECURSIVE Flatten(_)
\* the lines of the texts xs, in order
Flatten(xs) == IF xs = <<>> THEN <<>> ELSE Head(xs) \o Flatten(Tail(xs))

\* '\n'.join(xs), as a sequence of lines: the empty list joins to the empty
\* string, which is one empty line
Join(xs) == IF xs = <<>> THEN <<"">> ELSE Flatten(xs)

(* ------------------------- spreadsheet cells -------------------------- *)
StrV(x) == [t |-> "str", s |-> x, i |-> 0]
IntV(n) == [t |-> "int", s |-> "", i |-> n]
\* the float n.0
FloatV(n) == [t |-> "float", s |-> "", i |-> n]
NaN == [t |-> "nan", s |-> "", i |-> 0]
None == [t |-> "none", s |-> "", i |-> 0]

\* pd.isna(v) / pd.notna(v)
isna(v) == v.t \in {"nan", "none"}
notna(v) == ~isna(v)

\* bool(v): float('nan') is true, 0 and '' and None are false
Truthy(v) ==
    CASE v.t = "str" -> v.s # ""
      [] v.t \in {"int", "float"} -> v.i # 0
      [] v.t = "nan" -> TRUE
      [] OTHER -> FALSE

\* f'{v}'
Format(v) ==
    CASE v.t = "str" -> v.s
      [] v.t = "int" -> ToString(v.i)
      [] v.t = "float" -> ToString(v.i) \o ".0"
      [] v.t = "nan" -> "nan"
      [] OTHER -> "None"

\* data_row.get(col, default)
Get(row, col, default) == IF col \in DOMAIN row THEN row[col] ELSE default

\* v.lower() == 'yes', for a cell v that is a string
IsYes(v) == Lower(v.s) = "yes"


(* ----------------------- ipaddress (IPv4 only) ------------------------ *)
(* An address is <<hi, lo>>, the two 16-bit halves of its 32-bit value; a  *)
(* network is [network_address, prefixlen].  IPv6 descriptors and netmask  *)
(* notation ("/255.255.255.0") are outside the modelled sheets.            *)
Half == 2 ^ 16

Digits == "0123456789"
\* the value of each decimal digit
DigitOf ==
    [c \in {Char(Digits, k) : k \in 1..Len(Digits)} |->
        (CHOOSE k \in 1..Len(Digits) : Char(Digits, k) = c) - 1]
IsDigit(c) == c \in DOMAIN DigitOf
DigitVal(c) == DigitOf[c]

RECURSIVE AllDigits(_)
AllDigits(s) == s = "" \/ (IsDigit(Char(s, 1)) /\ AllDigits(Tail(s)))

RECURSIVE IntOf(_, _)
\* int(s) of a string of decimal digits, `acc` the value read so far
IntOf(s, acc) == IF s = "" THEN acc ELSE IntOf(Tail(s), 10 * acc + DigitVal(Char(s, 1)))

\* IPv4Address._parse_octet: 1 to 3 decimal digits, no leading zero, at most 255
OctetOk(s) ==
    /\ s # ""
    /\ Len(s) <= 3
    /\ AllDigits(s)
    /\ (Len(s) > 1 => Char(s, 1) # "0")
    /\ IntOf(s, 0) <= 255

\* IPv4Address(s): [ok, addr]
ip_address(s) ==
    LET o == Split(s, ".") IN
    IF Len(o) = 4 /\ \A k \in 1..4 : OctetOk(o[k])
    THEN [ok |-> TRUE,
          addr |-> <<256 * IntOf(o[1], 0) + IntOf(o[2], 0),
                     256 * IntOf(o[3], 0) + IntOf(o[4], 0)>>]
    ELSE [ok |-> FALSE, addr |-> <<0, 0>>]

\* IPv4Network._prefix_from_prefix_string: decimal digits, at most 32 (the
\* length test only keeps IntOf within the model checker's integers)
PrefixOk(s) == s # "" /\ Len(s) <= 9 /\ AllDigits(s) /\ IntOf(s, 0) <= 32

\* addr & netmask(prefixlen): the host bits cleared
MaskAddr(addr, prefixlen) ==
    LET h == 32 - prefixlen IN
    IF h <= 16
    THEN <<addr[1], addr[2] - (addr[2] % (2 ^ h))>>
    ELSE <<addr[1] - (addr[1] % (2 ^ (h - 16))), 0>>

\* ipaddress.ip_network(subnet, strict=False): [ok, network_address, prefixlen];
\* ok is FALSE where ip_network raises ValueError
ip_network(subnet) ==
    LET bad == [ok |-> FALSE, network_address |-> <<0, 0>>, prefixlen |-> 0] IN
    CASE subnet.t = "str" ->
           LET p == Split(subnet.s, "/")
               a == ip_address(p[1])
               n == IF Len(p) = 2 /\ PrefixOk(p[2]) THEN IntOf(p[2], 0) ELSE 32
           IN  IF Len(p) <= 2 /\ a.ok /\ (Len(p) = 2 => PrefixOk(p[2]))
               THEN [ok |-> TRUE, network_address |-> MaskAddr(a.addr, n), prefixlen |-> n]
               ELSE bad
      [] subnet.t = "int" ->
           \* an integer is taken as the 32-bit value of a single address
           IF subnet.i >= 0
           THEN [ok |-> TRUE,
                 network_address |-> <<subnet.i \div Half, subnet.i % Half>>,
                 prefixlen |-> 32]
           ELSE bad
      [] OTHER -> bad

\* IPv4Address.__add__: [ok, addr]; ok is FALSE where the sum leaves 32 bits
\* (AddressValueError)
AddrPlus(addr, k) ==
    LET lo == addr[2] + k
        hi == addr[1] + (lo \div Half)
    IN  [ok |-> hi < Half, addr |-> <<hi % Half, lo % Half>>]

\* str(IPv4Address)
AddrStr(addr) ==
    ToString(addr[1] \div 256) \o "." \o ToString(addr[1] % 256) \o "."
        \o ToString(addr[2] \div 256) \o "." \o ToString(addr[2] % 256)

\* the offsets of lines 51-52: 1 for the first party, 2 for the second
local_offset(is_site_a) == IF is_site_a THEN 1 ELSE 2
peer_offset(is_site_a) == IF is_site_a THEN 2 ELSE 1

\* local_ip = network.network_address + (1 if is_site_a else 2)
local_ip(network, is_site_a) == AddrPlus(network.network_address, local_offset(is_site_a))
\* peer_ip = network.network_address + (2 if is_site_a else 1)
peer_ip(network, is_site_a) == AddrPlus(network.network_address, peer_offset(is_site_a))


(* ----------------------------- renderers ------------------------------ *)
\* a raised exception / a returned value
Raise(e) == [exc |-> e, val |-> <<>>, log |-> <<>>]
Return(v) == [exc |-> "", val |-> v, log |-> <<>>]
\* the same outcome, after `msgs` were logged
Logged(msgs, r) == [r EXCEPT !.log = msgs \o @]

\* count_ports: the number of columns whose name starts with portA or portB
count_ports(data_row) ==
    Cardinality({col \in DOMAIN data_row :
                    StartsWith(col, "portA") \/ StartsWith(col, "portB")})

\* f'port{"A" if is_site_a else "B"}{n}'
port_id_of(is_site_a, n) == "port" \o (IF is_site_a THEN "A" ELSE "B") \o ToString(n)
\* f'port{"B" if is_site_a else "A"}{n}'
peer_port_id_of(is_site_a, n) == "port" \o (IF is_site_a THEN "B" ELSE "A") \o ToString(n)

\* the condition of lines 57 and 67
port_present(data_row, port_id) == port_id \in DOMAIN data_row /\ ~isna(data_row[port_id])

generate_port_config(peer_site_name, port_id, peer_port_id, port_type) ==
    <<"    port " \o Format(port_id),
      "        description \"To-" \o Format(peer_site_name) \o "-" \o Format(port_type)
          \o "-" \o Format(peer_port_id) \o "\"",
      "        ethernet">>
    \o (IF port_type = StrV("GE") THEN <<"            autonegotiate limited">> ELSE <<>>)
    \o <<"            load-balancing-algorithm include-l4",
         "            hold-time up 5",
         "        exit",
         "        no shutdown",
         "    exit">>

generate_mbfd_config(local, peer) ==
    <<"        bfd",
      "            family ipv4",
      "                local-ip-address " \o AddrStr(local),
      "                remote-ip-address " \o AddrStr(peer),
      "                no shutdown",
      "            exit",
      "        exit">>

\* the bfd line of lines 150-152: raises AttributeError for a cell that is not a
\* string, IndexError when the split has fewer than three parts
bfd_line(bfd) ==
    IF isna(bfd) THEN Return(<<>>)
    ELSE IF bfd.t # "str" THEN Raise("AttributeError")
    ELSE LET result == Split(bfd.s, "/") IN
         IF Len(result) < 3 THEN Raise("IndexError")
         ELSE Return(<<"            bfd " \o result[1] \o " receive " \o result[2]
                           \o " multiplier " \o result[3]>>)

generate_interface_config(interface, address, lag_a, lag_b, site, bfd) ==
    LET b == bfd_line(bfd) IN
    IF b.exc # "" THEN b
    ELSE Return(
        <<"    router",
          "        interface \"" \o interface \o "\"",
          "            address " \o address,
          "            description \"To-" \o Format(site) \o "-Lag-" \o Format(lag_b) \o "\"",
          "            port lag-" \o Format(lag_a)>>
        \o b.val
        \o <<"            no shutdown",
             "        exit">>)

generate_routing_protocol_config(protocol, interface, area, key, bfd) ==
    IF protocol = "ospf" /\ Truthy(area)
    THEN <<"        ospf",
           "            area " \o Format(area),
           "                interface \"" \o interface \o "\"",
           "                     interface-type point-to-point">>
         \o (IF notna(key)
             THEN <<"                     message-digest-key 10 md5 " \o Format(key),
                    "                     authentication-type message-digest">>
             ELSE <<>>)
         \o (IF notna(bfd) THEN <<"                     bfd-enable">> ELSE <<>>)
         \o <<"                     no shutdown",
              "                 exit",
              "            exit",
              "        exit">>
    ELSE <<"        isis",
           "            interface \"" \o interface \o "\"",
           "                level-capability level-2",
           "                interface-type point-to-point">>
         \o (IF notna(key)
             THEN <<"                hello-authentication-key " \o Format(key),
                    "                hello-authentication-type message-digest">>
             ELSE <<>>)
         \o (IF notna(bfd) THEN <<"                bfd-enable ipv4">> ELSE <<>>)
         \o <<"                no shutdown",
              "            exit",
              "        exit">>

generate_ldp_config(interface) ==
    <<"        ldp",
      "            interface-parameters",
      "                interface \"" \o interface \o "\"",
      "                    bfd-enable ipv4",
      "                    ipv4",
      "                        no shutdown",
      "                    exit",
      "                    no shutdown",
      "                exit",
      "            exit",
      "        exit">>

generate_other_protocol_config(protocol, interface) ==
    <<"        " \o protocol,
      "            interface \"" \o interface \o "\"",
      "                no shutdown",
      "            exit",
      "        exit">>


(* --------------------------- configure_site --------------------------- *)
\* what reading data_row.<col>.lower() raises: AttributeError for an absent column
\* and for a cell that is not a string, "" otherwise
lower_error(data_row, col) ==
    IF col \notin DOMAIN data_row \/ data_row[col].t # "str" THEN "AttributeError" ELSE ""

\* '#' + 79 * '=' and '#' + 79 * '-'
double_rule == "#" \o Repeat("=", 79)
single_rule == "#" \o Repeat("-", 79)

\* the header lines of lines 43-48, one list element each
site_header(site_name, peer_site_name) ==
    <<<<double_rule>>,
      <<"# On " \o Format(site_name) \o " ==> " \o Format(peer_site_name)>>,
      <<single_rule>>,
      <<"exit all">>,
      <<"/config">>>>

\* the values of n, in order, for which the loops of lines 54 and 65 find a port
port_numbers(data_row, is_site_a) ==
    SelectSeq([n \in 1..count_ports(data_row) |-> n],
              LAMBDA n : port_present(data_row, port_id_of(is_site_a, n)))

\* lines 54-59: one port stanza per port found
port_stanzas(data_row, peer_site_name, is_site_a) ==
    LET ns == port_numbers(data_row, is_site_a) IN
    [k \in 1..Len(ns) |->
        generate_port_config(peer_site_name,
                             data_row[port_id_of(is_site_a, ns[k])],
                             Get(data_row, peer_port_id_of(is_site_a, ns[k]), StrV("")),
                             data_row["PortType"])]

\* lines 61-76: the lag stanza, its members and the optional micro-BFD block
lag_stanza(data_row, local_lag, peer_lag, peer_site_name, is_site_a, local, peer) ==
    LET ns == port_numbers(data_row, is_site_a) IN
    <<<<"    lag " \o Format(local_lag)>>,
      <<"        description \"To-" \o Format(peer_site_name) \o "-Lag-"
            \o Format(peer_lag) \o "\"">>>>
    \o [k \in 1..Len(ns) |->
            <<"        port " \o Format(data_row[port_id_of(is_site_a, ns[k])])>>]
    \o (IF IsYes(data_row["microBFD"]) THEN <<generate_mbfd_config(local, peer)>> ELSE <<>>)
    \o <<<<"        dynamic-cost">>,
         <<"        lacp active">>,
         <<"        no shutdown">>,
         <<"    exit">>>>

\* interface_name without the test for an empty string
interface_name_keeps_empty(data_row, peer_lag, peer_site_name, is_site_a) ==
    LET interface == Get(data_row, "Interface" \o (IF is_site_a THEN "A" ELSE "B"), None) IN
    IF isna(interface)
    THEN StrV("To_" \o Format(peer_site_name) \o "_LAG" \o Format(peer_lag))
    ELSE interface

\* lines 78-80: the explicit interface name of this role, or the generated one
interface_name(data_row, peer_lag, peer_site_name, is_site_a) ==
    LET interface == Get(data_row, "Interface" \o (IF is_site_a THEN "A" ELSE "B"), None) IN
    IF isna(interface) \/ ~Truthy(interface)
    THEN StrV("To_" \o Format(peer_site_name) \o "_LAG" \o Format(peer_lag))
    ELSE interface

RECURSIVE other_protocols(_, _, _)
\* lines 93-95, for the protocols `protos` still to visit: KeyError for an absent
\* column, AttributeError for a cell that is not a string
other_protocols(data_row, protos, interface) ==
    IF protos = <<>> THEN Return(<<>>)
    ELSE LET proto == Head(protos) IN
         IF proto \notin DOMAIN data_row THEN Raise("KeyError")
         ELSE IF data_row[proto].t # "str" THEN Raise("AttributeError")
         ELSE LET rest == other_protocols(data_row, Tail(protos), interface) IN
              IF rest.exc # "" THEN rest
              ELSE Return((IF IsYes(data_row[proto])
                           THEN <<generate_other_protocol_config(proto, interface)>>
                           ELSE <<>>) \o rest.val)

\* additional_protocols with the ldp stanza put before the other three
additional_protocols_ldp_first(data_row, interface) ==
    LET others == other_protocols(data_row, <<"pim", "mpls", "rsvp">>, interface) IN
    IF others.exc # "" THEN others
    ELSE IF lower_error(data_row, "ldp") # "" THEN Raise(lower_error(data_row, "ldp"))
    ELSE Return((IF IsYes(data_row["ldp"]) THEN <<generate_ldp_config(interface)>> ELSE <<>>)
                \o others.val)

\* lines 93-97: the auxiliary stanzas, pim, mpls, rsvp and then ldp
additional_protocols(data_row, interface) ==
    LET others == other_protocols(data_row, <<"pim", "mpls", "rsvp">>, interface) IN
    IF others.exc # "" THEN others
    ELSE IF lower_error(data_row, "ldp") # "" THEN Raise(lower_error(data_row, "ldp"))
    ELSE Return(others.val
                \o (IF IsYes(data_row["ldp"]) THEN <<generate_ldp_config(interface)>> ELSE <<>>))

\* lines 81-83: the error logged for a name of more than 32 characters
oversize_log(interface) ==
    IF Len(interface) > 32
    THEN <<"Interface '" \o interface \o "' is " \o ToString(Len(interface))
             \o " characters long, which exceeds the 32-character limit.">>
    ELSE <<>>

\* configure_site: [exc, val, log], val the returned list `config` (one line
\* sequence per list element), exc the exception raised instead, log what it
\* logged.  It is called on rows of a validated sheet, which has the columns
\* Subnet, PortType, RoutingProto and Area (validate_data).
configure_site(data_row, site_name, local_lag, peer_lag, peer_site_name, is_site_a) ==
    LET network == ip_network(data_row["Subnet"])
        local == local_ip(network, is_site_a)
        peer == peer_ip(network, is_site_a)
        interface == interface_name(data_row, peer_lag, peer_site_name, is_site_a)
        router == generate_interface_config(
                      interface.s,
                      AddrStr(local.addr) \o "/" \o ToString(network.prefixlen),
                      local_lag, peer_lag, peer_site_name, data_row["BFD"])
        additional == additional_protocols(data_row, interface.s)
    IN
    IF ~network.ok THEN Raise("ValueError")
    ELSE IF ~local.ok \/ ~peer.ok THEN Raise("AddressValueError")
    ELSE IF lower_error(data_row, "microBFD") # "" THEN Raise("AttributeError")
    ELSE IF interface.t # "str" THEN Raise("TypeError")
    ELSE Logged(oversize_log(interface.s),
    IF "BFD" \notin DOMAIN data_row THEN Raise("AttributeError")
    ELSE IF router.exc # "" THEN router
    ELSE IF lower_error(data_row, "RoutingProto") # "" THEN Raise("AttributeError")
    ELSE IF "Auth_Key" \notin DOMAIN data_row THEN Raise("AttributeError")
    ELSE IF additional.exc # "" THEN additional
    ELSE Return(
        site_header(site_name, peer_site_name)
        \o port_stanzas(data_row, peer_site_name, is_site_a)
        \o lag_stanza(data_row, local_lag, peer_lag, peer_site_name, is_site_a,
                      local.addr, peer.addr)
        \o <<router.val>>
        \o <<generate_routing_protocol_config(
                 Lower(data_row["RoutingProto"].s), interface.s,
                 data_row["Area"], data_row["Auth_Key"], data_row["BFD"])>>
        \o additional.val
        \o <<<<"    exit">>, <<"exit">>>>))


(* ---------------------------- validate_data --------------------------- *)
required_columns == <<"SiteA", "SiteB", "LagA", "LagB", "Subnet", "PortType", "RoutingProto", "Area">>

\* (data['RoutingProto'].str.lower() == 'ospf').any()
any_ospf(data) ==
    \E k \in 1..Len(data.rows) :
        LET v == data.rows[k]["RoutingProto"] IN v.t = "str" /\ Lower(v.s) = "ospf"

\* data['Area'].isnull().any()
any_area_null(data) == \E k \in 1..Len(data.rows) : isna(data.rows[k]["Area"])

\* lines 35-37: whether the sheet is rejected for its areas
area_rejected(data) == any_ospf(data) /\ any_area_null(data)

\* validate_data: [exc, val, log]; .str raises AttributeError on a column that
\* holds rows and no string
validate_data(data) ==
    LET missing == SelectSeq(required_columns, LAMBDA col : col \notin data.columns) IN
    IF missing # <<>>
    THEN Logged(<<"Missing required column: " \o Head(missing)>>, Return(FALSE))
    ELSE IF data.rows # <<>>
            /\ \A k \in 1..Len(data.rows) : data.rows[k]["RoutingProto"].t # "str"
    THEN Raise("AttributeError")
    ELSE IF area_rejected(data)
    THEN Logged(<<"Area column has missing values for OSPF protocols.">>, Return(FALSE))
    ELSE Return(TRUE)

(* -------------------------------- main -------------------------------- *)
\* what the operator may type at the prompt of line 242
Inputs == {"s", " M ", "single"}

Pad2(n) == IF n < 10 THEN "0" \o ToString(n) ELSE ToString(n)
\* strftime("%d-%m-%Y_%H-%M-%S") of the clock, which counts the seconds of one day
Strftime(t) ==
    "01-01-2026_" \o Pad2(t \div 3600) \o "-" \o Pad2((t \div 60) % 60) \o "-" \o Pad2(t % 60)

\* the times datetime.now() may read after the clock showed t
Later(t) == {u \in {t, t + 1} : u <= MaxClock}

\* open(name, 'w').write(text)
WriteFile(fs, name, text) == (name :> text) @@ fs

\* lines 249-252: the link header
link_header(row) ==
    <<<<double_rule>>,
      <<"# Link " \o Format(row["SiteA"]) \o " <=> " \o Format(row["SiteB"])>>>>

\* line 258
link_file(row, t) ==
    "FinalConfigFiles/Configuration_" \o Format(row["SiteA"]) \o "_to_"
        \o Format(row["SiteB"]) \o "_" \o Strftime(t) \o ".txt"

\* line 266
single_file(t) == "FinalConfigFiles/Configuration_" \o Strftime(t) \o ".txt"

\* lines 253-254: both stanzas of a link, [exc, val, log]
link_config(row) ==
    LET a == configure_site(row, row["SiteA"], row["LagA"], row["LagB"], row["SiteB"], TRUE)
        b == configure_site(row, row["SiteB"], row["LagB"], row["LagA"], row["SiteA"], FALSE)
    IN  IF a.exc # "" THEN a
        ELSE IF b.exc # "" THEN Logged(a.log, b)
        ELSE Logged(a.log \o b.log, Return(a.val \o b.val))

\* lines 234-240: read_data and validate_data; main exits on an invalid sheet
Load ==
    /\ pc = "start"
    /\ LET v == IF DataPlan.none THEN Return(FALSE) ELSE validate_data(DataPlan) IN
       IF v.exc # ""
       THEN /\ pc' = "crashed"
            /\ exc' = v.exc
            /\ log' = log \o v.log
       ELSE IF v.val
       THEN /\ pc' = "prompt"
            /\ UNCHANGED <<exc, log>>
       ELSE /\ pc' = "exited"
            /\ log' = log \o v.log \o <<"Exiting due to invalid data.">>
            /\ UNCHANGED exc
    /\ UNCHANGED <<DataPlan, output_choice, idx, output_config, files, output_dir, now>>

\* lines 242-247: the prompt, makedirs, the empty output_config
Prompt ==
    /\ pc = "prompt"
    /\ \E typed \in Inputs : output_choice' = Lower(Strip(typed))
    /\ output_dir' = TRUE
    /\ output_config' = <<>>
    /\ pc' = "loop"
    /\ UNCHANGED <<DataPlan, idx, files, now, log, exc>>

\* lines 248-264: one iteration of the loop over the rows
Iterate ==
    /\ pc = "loop"
    /\ idx < Len(DataPlan.rows)
    /\ LET row == DataPlan.rows[idx + 1]
           config == link_config(row)
       IN  /\ log' = log \o config.log
           /\ IF config.exc # ""
              THEN /\ pc' = "crashed"
                   /\ exc' = config.exc
                   /\ output_config' = output_config \o link_header(row)
                   /\ UNCHANGED <<idx, files, now>>
              ELSE /\ idx' = idx + 1
                   /\ UNCHANGED <<pc, exc>>
                   /\ IF output_choice = "m"
                      THEN /\ now' \in Later(now)
                           /\ files' = WriteFile(files, link_file(row, now'), Join(config.val))
                           /\ output_config' = output_config \o link_header(row)
                      ELSE /\ output_config' = output_config \o link_header(row) \o config.val
                           /\ UNCHANGED <<files, now>>
    /\ UNCHANGED <<DataPlan, output_choice, output_dir>>

\* lines 265-272: after the loop, the single file
Finish ==
    /\ pc = "loop"
    /\ idx = Len(DataPlan.rows)
    /\ IF output_choice = "s"
       THEN /\ now' \in Later(now)
            /\ files' = WriteFile(files, single_file(now'), Join(output_config))
       ELSE UNCHANGED <<files, now>>
    /\ pc' = "done"
    /\ UNCHANGED <<DataPlan, output_choice, idx, output_config, output_dir, log, exc>>

Next == Load \/ Prompt \/ Iterate \/ Finish


(* ------------------------- the modelled sheets ------------------------ *)
\* row with column col set to v / without column col
With(row, col, v) == (col :> v) @@ row
Without(row, col) == [c \in DOMAIN row \ {col} |-> row[c]]

\* a link with every optional feature off, one port on each side
BaseRow ==
    [SiteA |-> StrV("R1"), SiteB |-> StrV("R2"), LagA |-> IntV(1), LagB |-> IntV(2),
     Subnet |-> StrV("10.0.0.0/30"), PortType |-> StrV("GE"),
     RoutingProto |-> StrV("isis"), Area |-> StrV("0.0.0.1"),
     Auth_Key |-> NaN, BFD |-> NaN, microBFD |-> StrV("no"),
     pim |-> StrV("no"), mpls |-> StrV("no"), rsvp |-> StrV("no"), ldp |-> StrV("no"),
     portA1 |-> StrV("1/1/1"), portB1 |-> StrV("2/1/1")]

\* pd.read_excel's column types: in a column with an empty cell and no string,
\* the numbers are floats
ReadExcel(rows) ==
    [k \in 1..Len(rows) |->
        [c \in DOMAIN rows[k] |->
            IF /\ rows[k][c].t = "int"
               /\ \E j \in 1..Len(rows) : rows[j][c].t = "nan"
               /\ \A j \in 1..Len(rows) : rows[j][c].t # "str"
            THEN FloatV(rows[k][c].i)
            ELSE rows[k][c]]]

\* the sheets whose rows all come from one of the row sets (rows of one set
\* share their columns), with at most MaxRows rows, and the unreadable file
Sheets(RowSets) ==
    {[none |-> TRUE, columns |-> {}, rows |-> <<>>]}
    \cup UNION {
        {[none |-> FALSE, columns |-> DOMAIN (CHOOSE r \in R : TRUE), rows |-> ReadExcel(rs)] :
            rs \in UNION {[1..k -> R] : k \in 0..MaxRows}} : R \in RowSets}

\* the state when main starts on the sheet
InitOn(sheets) ==
    /\ DataPlan \in sheets
    /\ pc = "start"
    /\ output_choice = ""
    /\ idx = 0
    /\ output_config = <<>>
    /\ files = [name \in {} |-> <<>>]
    /\ output_dir = FALSE
    /\ now = 0
    /\ log = <<>>
    /\ exc = ""

\* subnets: aligned and not, every kind of prefix length, the top of the
\* address space, no prefix, and descriptors ip_network rejects
Subnets ==
    {StrV("10.0.0.0/30"), StrV("10.0.0.5/30"), StrV("10.0.0.0/31"), StrV("10.0.0.6/31"),
     StrV("10.0.0.7/32"), StrV("10.0.0.9"), StrV("192.168.1.77/24"), StrV("10.1.255.255/16"),
     StrV("0.0.0.0/0"), StrV("255.255.255.255/32"), StrV("255.255.255.254/31"),
     StrV("255.255.255.252/30"), StrV("10.0.0.0/33"), StrV("10.0.0/24"), NaN}

RowsAddr == {With(BaseRow, "Subnet", v) : v \in Subnets}
InitAddr == InitOn(Sheets({RowsAddr}))
SpecAddr == InitAddr /\ [][Next]_vars


\* routing protocols in several spellings, areas of every kind of value; a
\* sheet without the Area column
Protos == {StrV("ospf"), StrV("OSPF"), StrV("Ospf"), StrV("isis"), StrV("EIGRP")}
Areas == {NaN, IntV(0), IntV(1), StrV("0.0.0.0"), StrV("0.0.0.51")}

RowsProto == {With(With(BaseRow, "RoutingProto", p), "Area", a) : p \in Protos, a \in Areas}
InitProto == InitOn(Sheets({RowsProto, {Without(BaseRow, "Area")}}))
SpecProto == InitProto /\ [][Next]_vars

\* port columns: every set of at most two of the columns portA1..portB3 with
\* each cell empty or filled, and the full set with the first party's cells
\* empty or filled
PortColumns == {port_id_of(a, n) : a \in BOOLEAN, n \in 1..3}
PortValue(col) == StrV((IF StartsWith(col, "portA") THEN "1/1/" ELSE "2/1/") \o SubSeq(col, 6, Len(col)))
NoPorts == Without(Without(BaseRow, "portA1"), "portB1")

\* the rows with port columns cs, the cells of `varying` empty or filled and
\* the other cells filled
PortRows(cs, varying) ==
    {[c \in DOMAIN NoPorts \cup cs |->
        IF c \in cs
        THEN (IF c \in varying /\ c \notin filled THEN NaN ELSE PortValue(c))
        ELSE NoPorts[c]] : filled \in SUBSET varying}

RowSetsPorts ==
    {PortRows(cs, cs) : cs \in {c \in SUBSET PortColumns : Cardinality(c) <= 2}}
    \cup {PortRows(PortColumns, {"portA1", "portA2", "portA3"})}
InitPorts == InitOn(Sheets(RowSetsPorts))
SpecPorts == InitPorts /\ [][Next]_vars

\* BFD specs of one to five parts, an empty cell
BfdSpecs ==
    {NaN, StrV("1000/1000/3"), StrV("300/900/5"), StrV("1000/1000"), StrV("1000"),
     StrV("10/10/3/4"), StrV("1/2/3/4/5"), StrV("1000/1000/")}

RowsBfd ==
    {With(With(BaseRow, "BFD", b), "RoutingProto", p) : b \in BfdSpecs, p \in {StrV("isis"), StrV("OSPF")}}
InitBfd == InitOn(Sheets({RowsBfd}))
SpecBfd == InitBfd /\ [][Next]_vars

\* optional fields: the flags in several spellings, each optional cell empty in
\* turn, all of them empty at once
OnRow ==
    [BaseRow EXCEPT !["Auth_Key"] = StrV("k3y"), !["BFD"] = StrV("1000/1000/3"),
                    !["microBFD"] = StrV("Yes"), !["pim"] = StrV("yes"),
                    !["mpls"] = StrV("YES"), !["rsvp"] = StrV("Yes"), !["ldp"] = StrV("yEs")]
OptionalColumns == {"Auth_Key", "BFD", "microBFD", "pim", "mpls", "rsvp", "ldp"}
FlagColumns == <<"pim", "mpls", "rsvp", "ldp">>

RowsOpt ==
    {BaseRow, OnRow}
    \cup {With(OnRow, c, NaN) : c \in OptionalColumns}
    \cup {With(BaseRow, c, NaN) : c \in OptionalColumns}
    \cup {With(BaseRow, c, StrV("yes")) : c \in {"microBFD", "pim", "mpls", "rsvp", "ldp"}}
    \cup {With(OnRow, c, StrV("no")) : c \in {"microBFD", "pim", "mpls", "rsvp", "ldp"}}
    \cup {With(OnRow, c, StrV("y")) : c \in {"pim", "ldp"}}
    \cup {With(With(OnRow, "RoutingProto", StrV("ospf")), "PortType", StrV("10GE")),
          [c \in DOMAIN BaseRow |-> IF c \in OptionalColumns THEN NaN ELSE BaseRow[c]]}
InitOpt == InitOn(Sheets({RowsOpt}))
SpecOpt == InitOpt /\ [][Next]_vars

\* stanza order: the auxiliary flags on and off in several spellings, with
\* and without the micro-BFD block, both routing protocols
RowsOrder ==
    {BaseRow, OnRow,
     With(With(OnRow, "RoutingProto", StrV("ospf")), "PortType", StrV("10GE")),
     With(OnRow, "pim", StrV("no")), With(OnRow, "ldp", StrV("y")),
     With(OnRow, "microBFD", StrV("no")),
     With(BaseRow, "mpls", StrV("Yes")), With(With(BaseRow, "rsvp", StrV("YES")), "ldp", StrV("yes")),
     With(With(BaseRow, "pim", StrV(" yes")), "microBFD", StrV("YES"))}
InitOrder == InitOn(Sheets({RowsOrder}))
SpecOrder == InitOrder /\ [][Next]_vars

\* interface names: the columns InterfaceA and InterfaceB present or not, their
\* cells empty, the empty string, a name, a name of more than 32 characters;
\* a site name long enough for the generated name to pass 32 characters
LongSite == StrV("DataCenter-Core-Router-North-01")
LongName == StrV("Link-To-DataCenter-Core-Router-South-02")
LongRow == [OnRow EXCEPT !["SiteA"] = LongSite, !["LagA"] = IntV(12)]
InterfaceCells == {NaN, StrV(""), StrV("xe-0/0/1"), LongName}

RowSetsIface ==
    {{BaseRow, OnRow, LongRow},
     {With(r, "InterfaceA", v) : r \in {OnRow, LongRow}, v \in InterfaceCells},
     {With(BaseRow, "InterfaceB", v) : v \in InterfaceCells},
     {With(With(OnRow, "InterfaceA", v), "InterfaceB", w) :
         v \in {NaN, StrV("xe-0/0/1"), LongName}, w \in {NaN, StrV(""), StrV("to-R1")}}}
InitIface == InitOn(Sheets(RowSetsIface))
SpecIface == InitIface /\ [][Next]_vars

\* whole runs: links that render, two of them between the same sites, a link
\* whose subnet does not parse and one whose BFD spec has two parts
RowsRun ==
    {BaseRow,
     [BaseRow EXCEPT !["LagA"] = IntV(3), !["LagB"] = IntV(4), !["Subnet"] = StrV("10.0.0.4/30")],
     [OnRow EXCEPT !["SiteA"] = StrV("R3"), !["SiteB"] = StrV("R4"), !["RoutingProto"] = StrV("ospf")],
     With(BaseRow, "Subnet", StrV("10.0.0.0/33")),
     With(BaseRow, "BFD", StrV("1000/1000"))}
InitRun == InitOn(Sheets({RowsRun}))
SpecRun == InitRun /\ [][Next]_vars

(* ------------------------- reading the state -------------------------- *)
Rows == DataPlan.rows

\* the rows main has called configure_site on: those the loop has finished,
\* and the one whose rendering raised
Called == IF pc = "crashed" /\ output_dir THEN 1..(idx + 1) ELSE 1..idx

\* configure_site as main calls it for the first and for the second party
SiteA(row) == configure_site(row, row["SiteA"], row["LagA"], row["LagB"], row["SiteB"], TRUE)
SiteB(row) == configure_site(row, row["SiteB"], row["LagB"], row["LagA"], row["SiteA"], FALSE)
Site(row, is_site_a) == IF is_site_a THEN SiteA(row) ELSE SiteB(row)

HasLine(text, line) == \E j \in 1..Len(text) : text[j] = line
HasLineStarting(text, prefix) == \E j \in 1..Len(text) : StartsWith(text[j], prefix)

\* a RoutingProto cell that matches 'ospf' case-insensitively
IsOspf(row) == row["RoutingProto"].t = "str" /\ Lower(row["RoutingProto"].s) = "ospf"

(* -------------------------------- C1 ---------------------------------- *)
\* addr in network
InNetwork(addr, network) == MaskAddr(addr, network.prefixlen) = network.network_address

\* int(a) - int(b), for addresses whose upper halves differ by at most one
AddrDiff(a, b) == (a[1] - b[1]) * Half + (a[2] - b[2])

\* C1: for every row with a valid subnet that configure_site was called on, the
\* first party's and the second party's addresses exist, are exactly 1 apart,
\* and both lie in the subnet.
C1_AddressesInSubnet ==
    \A k \in Called :
        LET network == ip_network(Rows[k]["Subnet"])
            first == local_ip(network, TRUE)
            second == local_ip(network, FALSE)
        IN  network.ok =>
              /\ first.ok /\ second.ok
              /\ AddrDiff(second.addr, first.addr) \in {1, -1}
              /\ InNetwork(first.addr, network)
              /\ InNetwork(second.addr, network)

(* -------------------------------- C2 ---------------------------------- *)
\* C2: in every rendered stanza, a row whose RoutingProto is 'ospf' in any case
\* has the OSPF block with an area line, whatever its area; any other row has
\* the ISIS block.
C2_OspfAlwaysHasArea ==
    \A k \in 1..idx : \A is_site_a \in BOOLEAN :
        LET text == Join(Site(Rows[k], is_site_a).val) IN
        IF IsOspf(Rows[k])
        THEN /\ HasLine(text, "        ospf")
             /\ HasLineStarting(text, "            area ")
             /\ ~HasLine(text, "        isis")
        ELSE /\ HasLine(text, "        isis")
             /\ ~HasLine(text, "        ospf")

(* -------------------------------- C10 --------------------------------- *)
\* C10: once the sheet is loaded, it is rejected with nothing rendered when an
\* OSPF row has no area, and a sheet with all required columns whose OSPF
\* rows all have an area is accepted, whatever the areas of the other rows.
C10_AreaRequiredOnlyForOspf ==
    (pc # "start" /\ ~DataPlan.none) =>
        /\ (\E k \in 1..Len(Rows) : IsOspf(Rows[k]) /\ isna(Rows[k]["Area"]))
              => (pc = "exited" /\ idx = 0 /\ DOMAIN files = {})
        /\ ((\A j \in 1..Len(required_columns) : required_columns[j] \in DataPlan.columns)
             /\ \A k \in 1..Len(Rows) : IsOspf(Rows[k]) => notna(Rows[k]["Area"]))
              => pc # "exited"


(* -------------------------------- C3 ---------------------------------- *)
\* the lines of text that start with prefix, in order
LinesStarting(text, prefix) == SelectSeq(text, LAMBDA line : StartsWith(line, prefix))

\* the cells of the ports of one side that hold a value, by increasing index
PresentPorts(row, is_site_a) ==
    LET ns == SelectSeq([n \in 1..MaxPortIndex |-> n],
                        LAMBDA n : port_present(row, port_id_of(is_site_a, n)))
    IN  [j \in 1..Len(ns) |-> row[port_id_of(is_site_a, ns[j])]]

\* C3: in every rendered stanza, the port stanzas are exactly those of the
\* ports of that side that hold a value, one each, and the lag's members are
\* the same ports in the same index order.
C3_EveryPresentPortRendered ==
    \A k \in 1..idx : \A is_site_a \in BOOLEAN :
        LET text == Join(Site(Rows[k], is_site_a).val)
            ports == PresentPorts(Rows[k], is_site_a)
        IN  /\ LinesStarting(text, "    port ")
                 = [j \in 1..Len(ports) |-> "    port " \o Format(ports[j])]
            /\ LinesStarting(text, "        port ")
                 = [j \in 1..Len(ports) |-> "        port " \o Format(ports[j])]

(* -------------------------------- C4 ---------------------------------- *)
\* C4: for every row with a BFD spec that configure_site was called on, a spec
\* of exactly three parts gives the line 'bfd <tx> receive <rx> multiplier
\* <mult>', and a spec of any other number of parts makes the rendering fail.
C4_BfdExactlyThreeParts ==
    \A k \in Called : \A is_site_a \in BOOLEAN :
        LET bfd == Rows[k]["BFD"]
            parts == Split(bfd.s, "/")
            r == Site(Rows[k], is_site_a)
        IN  (notna(bfd) /\ bfd.t = "str") =>
              IF Len(parts) = 3
              THEN /\ r.exc = ""
                   /\ HasLine(Join(r.val), "            bfd " \o parts[1] \o " receive "
                                             \o parts[2] \o " multiplier " \o parts[3])
              ELSE r.exc # ""

(* -------------------------------- C5 ---------------------------------- *)
\* a row whose subnet gives both addresses and whose BFD spec, if any, is
\* well formed
WellFormed(row) ==
    LET network == ip_network(row["Subnet"]) IN
    /\ network.ok /\ local_ip(network, FALSE).ok
    /\ (isna(row["BFD"]) \/ (row["BFD"].t = "str" /\ Len(Split(row["BFD"].s, "/")) = 3))

\* C5: for every well-formed row configure_site was called on, an empty cell in
\* an optional column does not make the rendering fail; it only leaves that
\* column's lines out.
C5_MissingOptionalNeverFails ==
    \A k \in Called : \A is_site_a \in BOOLEAN :
        LET row == Rows[k]
            r == Site(row, is_site_a)
            text == Join(r.val)
        IN  (WellFormed(row) /\ \A c \in OptionalColumns : isna(row[c]) \/ row[c].t = "str") =>
              /\ r.exc = ""
              /\ isna(row["Auth_Key"]) => ~HasLineStarting(text, "                hello-authentication-key")
              /\ isna(row["BFD"]) => ~HasLineStarting(text, "            bfd ")
              /\ isna(row["microBFD"]) => ~HasLine(text, "        bfd")
              /\ \A j \in 1..Len(FlagColumns) :
                    isna(row[FlagColumns[j]]) => ~HasLine(text, "        " \o FlagColumns[j])

(* -------------------------------- C6 ---------------------------------- *)
\* C6: when the rendering of a row has failed on its subnet or its BFD spec,
\* no file has been written, in either output mode.
C6_NoOutputAfterFatalError ==
    (pc = "crashed" /\ exc \in {"ValueError", "AddressValueError", "IndexError"})
        => DOMAIN files = {}

(* -------------------------------- C8 ---------------------------------- *)
\* the text of one link: the link header, the first party's stanza, the second's
LinkText(row) == Flatten(link_header(row) \o SiteA(row).val \o SiteB(row).val)

RECURSIVE AllLinksText(_)
AllLinksText(rows) ==
    IF rows = <<>> THEN <<>> ELSE LinkText(Head(rows)) \o AllLinksText(Tail(rows))

\* C8: in the mode with one file per link, every rendered row has a file that
\* holds the link header, the first party's stanza and then the second
\* party's; in the single-file mode the file written at the end holds these
\* texts of all rows, in input order.
C8_HeaderThenFirstThenSecond ==
    /\ output_choice = "m" =>
          \A k \in 1..idx : \E name \in DOMAIN files : files[name] = LinkText(Rows[k])
    /\ (output_choice = "s" /\ pc = "done" /\ Rows # <<>>) =>
          \E name \in DOMAIN files : files[name] = AllLinksText(Rows)


(* -------------------------------- C7 ---------------------------------- *)
\* the place of the first line of text equal to line / starting with prefix,
\* 0 when there is none
Index(text, line) ==
    IF HasLine(text, line)
    THEN CHOOSE j \in 1..Len(text) : text[j] = line /\ \A i \in 1..(j - 1) : text[i] # line
    ELSE 0
IndexStarting(text, prefix) ==
    IF HasLineStarting(text, prefix)
    THEN CHOOSE j \in 1..Len(text) :
            StartsWith(text[j], prefix) /\ \A i \in 1..(j - 1) : ~StartsWith(text[i], prefix)
    ELSE 0
Count(text, line) == Cardinality({j \in 1..Len(text) : text[j] = line})

\* a flag cell that says yes, in any case
Affirmed(row, col) == row[col].t = "str" /\ Lower(row[col].s) = "yes"

\* C7: every rendered stanza is, in this order: the header comment, the port
\* stanzas, the lag stanza with its members and then its micro-BFD block
\* (there exactly when microBFD says yes), the router interface stanza, the
\* routing protocol stanza, the auxiliary stanzas in the order pim, mpls, rsvp,
\* ldp (each there exactly when its flag says yes, in any case), and the two
\* closing exit lines.
C7_FixedStanzaOrder ==
    \A k \in 1..idx : \A is_site_a \in BOOLEAN :
        LET row == Rows[k]
            text == Join(Site(row, is_site_a).val)
            n == Len(text)
            site == Format(row[IF is_site_a THEN "SiteA" ELSE "SiteB"])
            peer == Format(row[IF is_site_a THEN "SiteB" ELSE "SiteA"])
            lag == IndexStarting(text, "    lag ")
            mbfd == Index(text, "        bfd")
            cost == Index(text, "        dynamic-cost")
            router == Index(text, "    router")
            ospf == Index(text, "        ospf")
            isis == Index(text, "        isis")
            proto == ospf + isis
            aux == [j \in 1..Len(FlagColumns) |-> Index(text, "        " \o FlagColumns[j])]
        IN  /\ SubSeq(text, 1, 5)
                 = <<double_rule, "# On " \o site \o " ==> " \o peer, single_rule,
                     "exit all", "/config">>
            /\ \A j \in 1..n : StartsWith(text[j], "    port ") => (5 < j /\ j < lag)
            /\ PresentPorts(row, is_site_a) # <<>> => StartsWith(text[6], "    port ")
            /\ 5 < lag
            /\ (mbfd # 0) = Affirmed(row, "microBFD")
            /\ \A j \in 1..n :
                  StartsWith(text[j], "        port ")
                      => (lag < j /\ j < (IF mbfd # 0 THEN mbfd ELSE cost))
            /\ mbfd # 0 => (lag < mbfd /\ mbfd < cost)
            /\ lag < cost /\ cost < router /\ router < proto
            /\ (ospf = 0) # (isis = 0)
            /\ Count(text, "    router") = 1
            /\ Count(text, "        ospf") + Count(text, "        isis") = 1
            /\ \A j \in 1..Len(FlagColumns) :
                  /\ (aux[j] # 0) = Affirmed(row, FlagColumns[j])
                  /\ Count(text, "        " \o FlagColumns[j]) <= 1
                  /\ aux[j] # 0 => (proto < aux[j] /\ aux[j] < n - 1)
                  /\ \A i \in 1..(j - 1) : (aux[i] # 0 /\ aux[j] # 0) => aux[i] < aux[j]
            /\ text[n - 1] = "    exit"
            /\ text[n] = "exit"

\* a run that has written the stanzas of a link with micro-BFD and all four
\* auxiliary protocols on
C7_Witness ==
    /\ pc = "done"
    /\ DOMAIN files # {}
    /\ \E k \in 1..idx :
          /\ Affirmed(Rows[k], "microBFD")
          /\ \A j \in 1..Len(FlagColumns) : Affirmed(Rows[k], FlagColumns[j])
          /\ Len(Join(SiteA(Rows[k]).val)) > 60

(* -------------------------------- C9 ---------------------------------- *)
InterfaceColumn(is_site_a) == IF is_site_a THEN "InterfaceA" ELSE "InterfaceB"

\* an explicit interface name: the column is there and its cell is a string
\* that is not empty
Supplied(row, is_site_a) ==
    /\ InterfaceColumn(is_site_a) \in DOMAIN row
    /\ row[InterfaceColumn(is_site_a)].t = "str"
    /\ row[InterfaceColumn(is_site_a)].s # ""

\* the name the claim gives the role: the explicit one, or To_<peerSite>_LAG<peerLag>
ExpectedName(row, is_site_a) ==
    IF Supplied(row, is_site_a)
    THEN row[InterfaceColumn(is_site_a)].s
    ELSE "To_" \o Format(row[IF is_site_a THEN "SiteB" ELSE "SiteA"])
            \o "_LAG" \o Format(row[IF is_site_a THEN "LagB" ELSE "LagA"])

\* the lines that name an interface
InterfaceLines(text) == SelectSeq(text, LAMBDA line : StartsWith(LStrip(line), "interface \""))

AffirmedFlags(row) == {j \in 1..Len(FlagColumns) : Affirmed(row, FlagColumns[j])}

\* C9: in every rendered stanza the router interface stanza, the routing
\* protocol stanza and each auxiliary stanza name one and the same interface:
\* the explicit name of the role unchanged when one is supplied, and
\* To_<peerSite>_LAG<peerLag> when the column is absent or its cell is empty or
\* the empty string; a name of more than 32 characters is rendered all the
\* same and is in the error log.
C9_InterfaceName ==
    \A k \in 1..idx : \A is_site_a \in BOOLEAN :
        LET row == Rows[k]
            lines == InterfaceLines(Join(Site(row, is_site_a).val))
            name == ExpectedName(row, is_site_a)
        IN  /\ Len(lines) = 2 + Cardinality(AffirmedFlags(row))
            /\ \A j \in 1..Len(lines) : LStrip(lines[j]) = "interface \"" \o name \o "\""
            /\ Len(name) > 32 =>
                  \E j \in 1..Len(log) : StartsWith(log[j], "Interface '" \o name \o "' is ")

\* a finished run that has written a link whose first party has an explicit
\* name and whose second party a generated one, both of more than 32
\* characters, with the four auxiliary stanzas
C9_Witness ==
    /\ pc = "done"
    /\ DOMAIN files # {}
    /\ \E k \in 1..idx :
          /\ Supplied(Rows[k], TRUE) /\ Len(ExpectedName(Rows[k], TRUE)) > 32
          /\ ~Supplied(Rows[k], FALSE) /\ Len(ExpectedName(Rows[k], FALSE)) > 32
          /\ Cardinality(AffirmedFlags(Rows[k])) = 4


(* ------------- the cases in which the code meets the claims ----------- *)
\* The addresses of C1 for prefix lengths up to 30: the second party's is the
\* first party's plus one and both lie in the subnet.  (SpecAddr)
AddressesInSubnetUpTo30 ==
    \A k \in Called :
        LET network == ip_network(Rows[k]["Subnet"])
            first == local_ip(network, TRUE)
            second == local_ip(network, FALSE)
        IN  (network.ok /\ network.prefixlen <= 30) =>
              /\ first.ok /\ second.ok
              /\ AddrDiff(second.addr, first.addr) = 1
              /\ InNetwork(first.addr, network)
              /\ InNetwork(second.addr, network)

\* The stanza of C2 is the OSPF one, with the row's area, exactly for the OSPF
\* rows whose area is not 0.  (SpecProto)
OspfStanzaForTruthyArea ==
    \A k \in 1..idx : \A is_site_a \in BOOLEAN :
        LET text == Join(Site(Rows[k], is_site_a).val) IN
        IF IsOspf(Rows[k]) /\ Truthy(Rows[k]["Area"])
        THEN /\ HasLine(text, "        ospf")
             /\ HasLine(text, "            area " \o Format(Rows[k]["Area"]))
             /\ ~HasLine(text, "        isis")
        ELSE /\ HasLine(text, "        isis")
             /\ ~HasLine(text, "        ospf")

\* The ports of C3 are all rendered when no port column has an index above
\* the number of port columns.  (SpecPorts)
PortsRenderedWhenCounted ==
    \A k \in 1..idx : \A is_site_a \in BOOLEAN :
        LET text == Join(Site(Rows[k], is_site_a).val)
            ports == PresentPorts(Rows[k], is_site_a)
        IN  (\A n \in 1..MaxPortIndex :
                port_id_of(is_site_a, n) \in DOMAIN Rows[k] => n <= count_ports(Rows[k]))
            => /\ LinesStarting(text, "    port ")
                    = [j \in 1..Len(ports) |-> "    port " \o Format(ports[j])]
               /\ LinesStarting(text, "        port ")
                    = [j \in 1..Len(ports) |-> "        port " \o Format(ports[j])]

\* The BFD spec of C4 fails with IndexError below three parts, and gives the
\* line of its first three parts otherwise.  (SpecBfd)
BfdAtLeastThreeParts ==
    \A k \in Called : \A is_site_a \in BOOLEAN :
        LET bfd == Rows[k]["BFD"]
            parts == Split(bfd.s, "/")
            r == Site(Rows[k], is_site_a)
        IN  (notna(bfd) /\ bfd.t = "str") =>
              IF Len(parts) >= 3
              THEN /\ r.exc = ""
                   /\ HasLine(Join(r.val), "            bfd " \o parts[1] \o " receive "
                                             \o parts[2] \o " multiplier " \o parts[3])
              ELSE r.exc = "IndexError"

\* The rendering of C5 succeeds exactly when the five flag cells are filled;
\* empty Auth_Key and BFD cells never stop it.  (SpecOpt)
FailsExactlyOnEmptyFlag ==
    \A k \in Called : \A is_site_a \in BOOLEAN :
        (Site(Rows[k], is_site_a).exc = "")
            = (\A c \in {"microBFD", "pim", "mpls", "rsvp", "ldp"} : notna(Rows[k][c]))

\* C6 outside the mode with one file per link; and in that mode the files
\* written are at most those of the rows before the failing one.  (SpecRun)
NoOutputAfterFatalErrorSingle ==
    /\ (pc = "crashed" /\ output_choice # "m") => DOMAIN files = {}
    /\ (pc = "crashed" /\ output_dir) => Cardinality(DOMAIN files) <= idx

\* C8 in the single-file mode; in the other mode the latest file holds the two
\* stanzas, first party first, without the link header.  (SpecRun)
SingleFileHasHeaders ==
    /\ (output_choice = "s" /\ pc = "done" /\ Rows # <<>>) =>
          \E name \in DOMAIN files : files[name] = AllLinksText(Rows)
    /\ (output_choice = "m" /\ idx > 0) =>
          files[link_file(Rows[idx], now)]
              = Flatten(SiteA(Rows[idx]).val \o SiteB(Rows[idx]).val)

\* The sheet of C10 is rejected exactly when it has an OSPF row and a row, of
\* any protocol, without area.  (SpecProto)
RejectedOnAnyMissingArea ==
    (pc # "start" /\ ~DataPlan.none /\ "Area" \in DataPlan.columns) =>
        ((pc = "exited")
            = ((\E k \in 1..Len(Rows) : IsOspf(Rows[k]))
                 /\ (\E k \in 1..Len(Rows) : isna(Rows[k]["Area"]))))

=============================================================================
